---- MODULE Spec2Model ----
(***************************************************************************)
(* A model of the App Store Connect client library: the JWT generator      *)
(* (pkg/jwt/jwt.go), the HTTP transport (pkg/httpclient/client.go), the    *)
(* client facade (pkg/appstore/client.go) and the device / profiles        *)
(* resource clients (pkg/appstore/device.go, profiles.go).                 *)
(*                                                                         *)
(* Conventions.  A Go string that is built or searched (error texts,       *)
(* vendor "detail" texts, the compact token) is a sequence: "" is <<>>.    *)
(* A Go string that is only compared (deviceClass, header names) is a TLA+ *)
(* string.  A decoded JSON value (interface{}) is a tagged record, so that *)
(* the code's type assertions (x.(string), x.([]interface{}) ...) can be   *)
(* modelled by a test of the tag.  A Go error is NilErr or Err(text).      *)
(***************************************************************************)
EXTENDS Integers, Sequences, FiniteSets, TLC

----------------------------------------------------------------------------
(* Bounds of the model.                                                    *)

\* the clock reading (epoch seconds) at which the client is constructed
StartTime == 1000
\* one advance of the clock between two operations, in seconds
TickStep == 570
\* how many times the clock advances by TickStep
MaxTicks == 2
\* how many times the key parser may run (caps the mint counters)
MaxParses == 2
\* number of threads making a concurrent first call
NThreads == 2
\* the longest device listing answered to DeviceSort's iOS query
MaxDevices == 3
\* how many times the clock advances by one second between two mints
MaxSeconds == 3

----------------------------------------------------------------------------
(* Program constants.                                                      *)

jwtAud == "appstoreconnect-v1"
jwtAlg == "ES256"
\* now.Add(-60 * time.Second)
IatSkew == 60
\* now.Add(19 * time.Minute), in seconds
ExpMinutes == 19
\* resp.StatusCode >= 400
ErrorStatus == 400

----------------------------------------------------------------------------
(* Go errors and strings.                                                  *)

NilErr == [nil |-> TRUE]
Err(msg) == [nil |-> FALSE, msg |-> msg]
\* fmt.Errorf("<prefix>: %w", err)
Wrap(prefix, err) == Err(<<prefix>> \o err.msg)
\* err.Error()
ErrorText(err) == err.msg

\* strings.Contains(s, sub) on word sequences
Contains(s, sub) ==
    \E i \in 0..(Len(s) - Len(sub)) : SubSeq(s, i + 1, i + Len(sub)) = sub

----------------------------------------------------------------------------
(* Decoded JSON values (interface{}).                                      *)

JNil == [t |-> "nil"]
JObj(f) == [t |-> "obj", f |-> f]
JArr(a) == [t |-> "arr", a |-> a]
JStr(s) == [t |-> "str", s |-> s]
JNum(n) == [t |-> "num", n |-> n]

\* m[k] on a map[string]interface{}: a missing key, or a nil map, gives nil
Field(m, k) == IF m.t = "obj" /\ k \in DOMAIN m.f THEN m.f[k] ELSE JNil
IsObj(v) == v.t = "obj"
IsArr(v) == v.t = "arr"
IsStr(v) == v.t = "str"

----------------------------------------------------------------------------
(* Key material: what config.PrivateKey can hold.  pem says whether the    *)
(* text holds a PEM block; container and family say what the DER payload   *)
(* of the block is.                                                        *)

KeyText(pem, container, family, curve) ==
    [pem |-> pem, container |-> container, family |-> family, curve |-> curve]

KeyNoPEM       == KeyText(FALSE, "none", "none", "none")
KeyPKCS8EC     == KeyText(TRUE, "pkcs8", "ec", "P-256")
KeyPKCS8EC384  == KeyText(TRUE, "pkcs8", "ec", "P-384")
KeyPKCS8RSA    == KeyText(TRUE, "pkcs8", "rsa", "none")
KeyPKCS8Ed     == KeyText(TRUE, "pkcs8", "ed25519", "none")
KeyPKCS1RSA    == KeyText(TRUE, "pkcs1", "rsa", "none")
\* the traditional ("EC PRIVATE KEY", SEC 1) container of an EC key
KeySEC1EC      == KeyText(TRUE, "sec1", "ec", "P-256")
KeyJunkPEM     == KeyText(TRUE, "junk", "none", "none")
\* the empty string as key text
KeyEmpty       == KeyText(FALSE, "empty", "none", "none")

KeyTexts == {KeyNoPEM, KeyPKCS8EC, KeyPKCS8EC384, KeyPKCS8RSA, KeyPKCS8Ed,
             KeyPKCS1RSA, KeySEC1EC, KeyJunkPEM}

NoBlock == [found |-> FALSE]
\* pem.Decode([]byte(text)): the first PEM block, or nil
pemDecode(text) ==
    IF text.pem
    THEN [found |-> TRUE, container |-> text.container,
          family |-> text.family, curve |-> text.curve]
    ELSE NoBlock

NoKey == [family |-> "none", curve |-> "none"]
\* x509.ParsePKCS8PrivateKey(block.Bytes): any key family PKCS#8 wraps
ParsePKCS8PrivateKey(block) ==
    IF block.container = "pkcs8"
    THEN [key |-> [family |-> block.family, curve |-> block.curve], err |-> NilErr]
    ELSE [key |-> NoKey, err |-> Err(<<"x509: failed to parse private key">>)]

\* x509.ParsePKCS1PrivateKey(block.Bytes): returns an *rsa.PrivateKey only
ParsePKCS1PrivateKey(block) ==
    IF block.container = "pkcs1" /\ block.family = "rsa"
    THEN [key |-> [family |-> "rsa", curve |-> "none"], err |-> NilErr]
    ELSE [key |-> NoKey, err |-> Err(<<"x509: failed to parse private key">>)]

\* Generator.parsePrivateKey.  tried lists the decoders that ran, in order.
parsePrivateKey(config) ==
    LET Decide(block, p8, p1) ==
          LET tried == IF p8.err.nil THEN <<"pkcs8">> ELSE <<"pkcs8", "pkcs1">> IN
          LET parsed == IF p8.err.nil THEN p8 ELSE p1 IN
          IF ~block.found
          THEN [key |-> NoKey, err |-> Err(<<"failed to decode PEM block">>),
                tried |-> <<>>]
          ELSE IF ~parsed.err.nil
          THEN [key |-> NoKey, err |-> Wrap("failed to parse private key:", parsed.err),
                tried |-> tried]
          ELSE IF parsed.key.family # "ec"
          THEN [key |-> NoKey, err |-> Err(<<"private key is not ECDSA">>),
                tried |-> tried]
          ELSE [key |-> parsed.key, err |-> NilErr, tried |-> tried]
    IN Decide(pemDecode(config.PrivateKey),
              ParsePKCS8PrivateKey(pemDecode(config.PrivateKey)),
              ParsePKCS1PrivateKey(pemDecode(config.PrivateKey)))

----------------------------------------------------------------------------
(* Token issuer.  The compact token is the sequence of its three segments  *)
(* <<header, claims, signature>>; the empty string is <<>>.                *)

EmptyString == <<>>

\* token.SignedString(key) under jwt.SigningMethodES256: the key must be an
\* ECDSA key on P-256.  nonce stands for the randomness of the signature.
SignedString(header, claims, key, nonce) ==
    IF key.family = "ec" /\ key.curve = "P-256"
    THEN [token |-> <<header, claims, [signedBy |-> key, nonce |-> nonce]>>,
          err |-> NilErr]
    ELSE [token |-> EmptyString, err |-> Err(<<"key is of invalid type">>)]

\* MapClaims with the expiry at the full 20 minutes
MapClaimsTwentyMinutes(config, t) ==
    [iss |-> config.Issuer,
     iat |-> t - IatSkew,
     exp |-> t + (ExpMinutes + 1) * 60,
     aud |-> jwtAud]

\* MapClaims from a clock reading cut to the whole minute
MapClaimsWholeMinute(config, t) ==
    [iss |-> config.Issuer,
     iat |-> (t - (t % 60)) - IatSkew,
     exp |-> (t - (t % 60)) + ExpMinutes * 60,
     aud |-> jwtAud]

\* the claims GenerateToken builds at clock reading t
MapClaims(config, t) ==
    [iss |-> config.Issuer,
     iat |-> t - IatSkew,
     exp |-> t + ExpMinutes * 60,
     aud |-> jwtAud]

\* TokenHeader with the issuer where the key ID belongs
TokenHeaderIssuerAsKid(config) == [alg |-> jwtAlg, kid |-> config.Issuer]

\* the header of jwt.NewWithClaims(jwt.SigningMethodES256, ...) with kid set
TokenHeader(config) == [alg |-> jwtAlg, kid |-> config.KeyID]

\* GenerateToken that parses the key for the first token only and keeps it
GenerateTokenCachedKey(config, t, nonce) ==
    LET Sign(pk) == SignedString(TokenHeader(config), MapClaims(config, t), pk.key, nonce) IN
    LET Finish(pk, s) ==
          IF ~pk.err.nil
          THEN [token |-> EmptyString,
                err |-> Wrap("failed to parse private key:", pk.err), parses |-> 1]
          ELSE IF ~s.err.nil
          THEN [token |-> EmptyString, err |-> Wrap("failed to sign token:", s.err),
                parses |-> 1]
          ELSE [token |-> s.token, err |-> NilErr, parses |-> IF nonce > 1 THEN 0 ELSE 1]
    IN Finish(parsePrivateKey(config), Sign(parsePrivateKey(config)))

\* Generator.GenerateToken at clock reading t.  parses counts the runs of
\* the key parser this call made.
GenerateToken(config, t, nonce) ==
    LET Sign(pk) == SignedString(TokenHeader(config), MapClaims(config, t), pk.key, nonce) IN
    LET Finish(pk, s) ==
          IF ~pk.err.nil
          THEN [token |-> EmptyString,
                err |-> Wrap("failed to parse private key:", pk.err), parses |-> 1]
          ELSE IF ~s.err.nil
          THEN [token |-> EmptyString, err |-> Wrap("failed to sign token:", s.err),
                parses |-> 1]
          ELSE [token |-> s.token, err |-> NilErr, parses |-> 1]
    IN Finish(parsePrivateKey(config), Sign(parsePrivateKey(config)))

----------------------------------------------------------------------------
(* Transport (httpclient.Client).  config.Token is a Go string: two words, *)
(* a pointer to the bytes and a length.  The slot is modelled by these two *)
(* words, because SetToken's assignment stores them one after the other    *)
(* and an unsynchronised reader can see one without the other.             *)

EmptySlot == [ptr |-> EmptyString, len |-> 0]

\* the slot's words do not describe a string: the length runs past the data
\* (a nil pointer with a non-zero length)
Torn(slot) == slot.len > Len(slot.ptr)

\* the string a reader of the slot gets (a Torn slot faults when its bytes
\* are copied; callers test Torn first)
SlotString(slot) == SubSeq(slot.ptr, 1, slot.len)

\* SetToken: c.config.Token = token, both words
SetToken(config, token) ==
    [config EXCEPT !.Token = [ptr |-> token, len |-> Len(token)]]

\* GetHeaders: the configured headers, then Authorization when Token # ""
GetHeaders(config) ==
    IF config.Token.len # 0
    THEN [k \in DOMAIN config.Headers \cup {"Authorization"} |->
            IF k = "Authorization"
            THEN <<"Bearer">> \o SlotString(config.Token)
            ELSE config.Headers[k]]
    ELSE config.Headers

\* headers[k] on a Go map: "" when the key is absent
HeaderValue(headers, k) == IF k \in DOMAIN headers THEN headers[k] ELSE EmptyString

\* EscapeChar that escapes the brackets and the comma only
EscapeCharBracketsOnly(c) ==
    CASE c = "[" -> "%5B"
      [] c = "]" -> "%5D"
      [] c = "," -> "%2C"
      [] OTHER -> c

\* url.QueryEscape on one element of a key or value: a reserved character,
\* or a run of unreserved ones (letters, digits, "-", "_", ".", "~")
EscapeChar(c) ==
    CASE c = "[" -> "%5B"
      [] c = "]" -> "%5D"
      [] c = "," -> "%2C"
      [] c = " " -> "+"
      [] c = "+" -> "%2B"
      [] c = "&" -> "%26"
      [] c = "=" -> "%3D"
      [] c = "%" -> "%25"
      [] OTHER -> c

QueryEscape(s) == [i \in 1..Len(s) |-> EscapeChar(s[i])]

\* url.Values.Encode(): "key=value" for each parameter, both escaped, joined
\* by "&".  (Go takes the keys in sorted order; here they are taken in a
\* fixed order.)
RECURSIVE EncodePairs(_, _)
EncodePairs(params, keys) ==
    IF keys = {} THEN <<>>
    ELSE LET k == CHOOSE x \in keys : TRUE IN
         LET Join(rest) ==
               QueryEscape(k) \o <<"=">> \o QueryEscape(params[k])
                 \o (IF rest = <<>> THEN <<>> ELSE <<"&">> \o rest) IN
         Join(EncodePairs(params, keys \ {k}))
Encode(params) == EncodePairs(params, DOMAIN params)

(* net/url's decoding of a query string, as the receiver of a request      *)
(* applies it: split at "&", split each part at its first "=", unescape.   *)
UnescapeChar(c) ==
    CASE c = "%5B" -> "["
      [] c = "%5D" -> "]"
      [] c = "%2C" -> ","
      [] c = "+" -> " "
      [] c = "%2B" -> "+"
      [] c = "%26" -> "&"
      [] c = "%3D" -> "="
      [] c = "%25" -> "%"
      [] OTHER -> c
QueryUnescape(s) == [i \in 1..Len(s) |-> UnescapeChar(s[i])]
\* the index of the first sep in s, Len(s) + 1 when there is none
FirstIndex(s, sep) ==
    IF \E i \in 1..Len(s) : s[i] = sep
    THEN CHOOSE i \in 1..Len(s) : s[i] = sep /\ \A j \in 1..(i - 1) : s[j] # sep
    ELSE Len(s) + 1
RECURSIVE SplitOn(_, _)
SplitOn(s, sep) ==
    IF FirstIndex(s, sep) > Len(s) THEN <<s>>
    ELSE <<SubSeq(s, 1, FirstIndex(s, sep) - 1)>>
           \o SplitOn(SubSeq(s, FirstIndex(s, sep) + 1, Len(s)), sep)
\* url.ParseQuery: the <<key, value>> pairs of a query string, in order
ParseQuery(q) ==
    IF q = <<>> THEN <<>>
    ELSE [j \in 1..Len(SplitOn(q, "&")) |->
            LET part == SplitOn(q, "&")[j] IN
            <<QueryUnescape(SubSeq(part, 1, FirstIndex(part, "=") - 1)),
              QueryUnescape(SubSeq(part, FirstIndex(part, "=") + 1, Len(part)))>>]

NoParams == <<>>
\* the URL of a request made with no parameters ends with the path
NoQuery == <<>>

\* BuildURL, and the query string Get and Delete append when len(params) > 0
BuildURL(config, path) == [base |-> config.BaseURL, version |-> config.APIVersion,
                           path |-> path]
FullURL(config, path, params) ==
    [url |-> BuildURL(config, path),
     query |-> IF Cardinality(DOMAIN params) > 0 THEN <<"?">> \o Encode(params)
               ELSE NoQuery]

(* What the network answers: ok is FALSE when httpClient.Do fails; raw is  *)
(* the body on the wire.                                                   *)
RawGarbage == [w |-> "garbage"]
RawEmpty == [w |-> "empty"]
RawNull == [w |-> "null"]
RawObject(v) == [w |-> "object", v |-> v]

\* json.Unmarshal(body, &result) into a map[string]interface{}
Unmarshal(raw) ==
    CASE raw.w = "object" -> [result |-> raw.v, err |-> NilErr]
      [] raw.w = "null" -> [result |-> JNil, err |-> NilErr]
      [] raw.w = "empty" -> [result |-> JNil, err |-> Err(<<"unexpected end of JSON input">>)]
      [] OTHER -> [result |-> JNil, err |-> Err(<<"invalid character">>)]

\* the request as it leaves: what httpClient.Do is given, and its answer
Request(method, url, headers, body, t, resp) ==
    [method |-> method, url |-> url, headers |-> headers, body |-> body, at |-> t,
     answer |-> resp]

\* Exchange that returns no body with the error of a status >= 400
ExchangeDroppingBody(req, resp) ==
    LET Decide(u) ==
          IF ~resp.ok
          THEN [req |-> req, result |-> JNil,
                err |-> Err(<<"failed to send request:", "transport">>)]
          ELSE IF ~u.err.nil
          THEN [req |-> req, result |-> JNil, err |-> Wrap("failed to parse JSON:", u.err)]
          ELSE IF resp.status >= ErrorStatus
          THEN [req |-> req, result |-> JNil,
                err |-> Err(<<"API request failed with status", ToString(resp.status)>>)]
          ELSE [req |-> req, result |-> u.result, err |-> NilErr]
    IN Decide(IF resp.ok THEN Unmarshal(resp.raw) ELSE [result |-> JNil, err |-> NilErr])

\* Exchange that tests the status before it parses the body
ExchangeStatusFirst(req, resp) ==
    LET Decide(u) ==
          IF ~resp.ok
          THEN [req |-> req, result |-> JNil,
                err |-> Err(<<"failed to send request:", "transport">>)]
          ELSE IF resp.status >= ErrorStatus
          THEN [req |-> req, result |-> u.result,
                err |-> Err(<<"API request failed with status", ToString(resp.status)>>)]
          ELSE IF ~u.err.nil
          THEN [req |-> req, result |-> JNil, err |-> Wrap("failed to parse JSON:", u.err)]
          ELSE [req |-> req, result |-> u.result, err |-> NilErr]
    IN Decide(IF resp.ok THEN Unmarshal(resp.raw) ELSE [result |-> JNil, err |-> NilErr])

\* the part of Get, PostJSON and Delete after the request is built
Exchange(req, resp) ==
    LET Decide(u) ==
          IF ~resp.ok
          THEN [req |-> req, result |-> JNil,
                err |-> Err(<<"failed to send request:", "transport">>)]
          ELSE IF ~u.err.nil
          THEN [req |-> req, result |-> JNil, err |-> Wrap("failed to parse JSON:", u.err)]
          ELSE IF resp.status >= ErrorStatus
          THEN [req |-> req, result |-> u.result,
                err |-> Err(<<"API request failed with status", ToString(resp.status)>>)]
          ELSE [req |-> req, result |-> u.result, err |-> NilErr]
    IN Decide(IF resp.ok THEN Unmarshal(resp.raw) ELSE [result |-> JNil, err |-> NilErr])

\* Client.Get
Get(config, path, params, t, resp) ==
    Exchange(Request("GET", FullURL(config, path, params), GetHeaders(config),
                     JNil, t, resp),
             resp)

\* Client.PostJSON: the headers plus Content-Type, the body marshalled
PostJSON(config, path, body, t, resp) ==
    LET WithContentType(h) ==
          [k \in DOMAIN h \cup {"Content-Type"} |->
             IF k = "Content-Type" THEN <<"application/json">> ELSE h[k]] IN
    Exchange(Request("POST", FullURL(config, path, NoParams),
                     WithContentType(GetHeaders(config)), body, t, resp),
             resp)

\* Client.Delete
Delete(config, path, params, t, resp) ==
    Exchange(Request("DELETE", FullURL(config, path, params), GetHeaders(config),
                     JNil, t, resp),
             resp)

----------------------------------------------------------------------------
(* Client facade (appstore.Client).  An operator that models a method      *)
(* returns the method's results and the transport configuration it leaves. *)

\* Client.GetToken
GetToken(jwt, t, nonce) ==
    LET Finish(g) ==
          IF ~g.err.nil
          THEN [token |-> EmptyString, err |-> Wrap("failed to generate token:", g.err),
                parses |-> g.parses]
          ELSE [token |-> g.token, err |-> NilErr, parses |-> g.parses]
    IN Finish(GenerateToken(jwt, t, nonce))

\* EnsureAuth that also mints when the attached token has expired
EnsureAuthRefreshing(http, jwt, t, nonce) ==
    LET Attach(g) ==
          IF ~g.err.nil
          THEN [http |-> http, err |-> g.err, parses |-> g.parses, minted |-> {}]
          ELSE [http |-> SetToken(http, g.token), err |-> NilErr,
                parses |-> g.parses, minted |-> {g.token}]
    IN IF \/ HeaderValue(GetHeaders(http), "Authorization") = EmptyString
          \/ SlotString(http.Token)[2].exp <= t
       THEN Attach(GetToken(jwt, t, nonce))
       ELSE [http |-> http, err |-> NilErr, parses |-> 0, minted |-> {}]

\* Client.EnsureAuth.  minted is the set of tokens this call minted.
EnsureAuth(http, jwt, t, nonce) ==
    LET Attach(g) ==
          IF ~g.err.nil
          THEN [http |-> http, err |-> g.err, parses |-> g.parses, minted |-> {}]
          ELSE [http |-> SetToken(http, g.token), err |-> NilErr,
                parses |-> g.parses, minted |-> {g.token}]
    IN IF HeaderValue(GetHeaders(http), "Authorization") = EmptyString
       THEN Attach(GetToken(jwt, t, nonce))
       ELSE [http |-> http, err |-> NilErr, parses |-> 0, minted |-> {}]

\* What a method of a resource client hands back: the transport
\* configuration it leaves (http), the key-parser runs and the tokens minted
\* on the way, the requests it sent, and its two results (value, err).
Outcome(a, reqs, value, err) ==
    [http |-> a.http, parses |-> a.parses, minted |-> a.minted,
     reqs |-> reqs, value |-> value, err |-> err]

\* a second call made after a first one, inside one method
Then(first, second) ==
    [second EXCEPT !.parses = first.parses + second.parses,
                   !.minted = first.minted \cup second.minted,
                   !.reqs = first.reqs \o second.reqs]

----------------------------------------------------------------------------
(* Base methods of the resource clients: EnsureAuth, then one transport    *)
(* call whose results are handed back as they are.                         *)

DevicesPath == <<"/devices">>
ProfilesPath == <<"/profiles">>
UsersPath == <<"/users">>

\* Gated that makes the transport call whatever EnsureAuth returned
GatedIgnoringAuth(a, g) == Outcome(a, <<g.req>>, g.result, g.err)

\* Gated that keeps the transport call's error to itself
GatedSwallowing(a, g) ==
    IF ~a.err.nil
    THEN Outcome(a, <<>>, JNil, a.err)
    ELSE Outcome(a, <<g.req>>, g.result, NilErr)

\* after EnsureAuth returned a: hand its error back, or make the one
\* transport call and hand back what it returns
Gated(a, g) ==
    IF ~a.err.nil
    THEN Outcome(a, <<>>, JNil, a.err)
    ELSE Outcome(a, <<g.req>>, g.result, g.err)

\* DeviceAPI.All
All(http, jwt, params, t, nonce, resp) ==
    LET Call(a) == Gated(a, Get(a.http, DevicesPath, params, t, resp)) IN
    Call(EnsureAuth(http, jwt, t, nonce))

\* strings.ToUpper on the platform names callers pass
ToUpper(s) ==
    CASE s = "ios" -> "IOS"
      [] s = "mac_os" -> "MAC_OS"
      [] OTHER -> s

\* DeviceAPI.Register
Register(http, jwt, name, platform, udid, t, nonce, resp) ==
    LET data == JObj([data |-> JObj([type |-> JStr("devices"),
                         attributes |-> JObj([name |-> JStr(name),
                                              platform |-> JStr(ToUpper(platform)),
                                              udid |-> JStr(udid)])])]) IN
    LET Call(a) == Gated(a, PostJSON(a.http, DevicesPath, data, t, resp)) IN
    Call(EnsureAuth(http, jwt, t, nonce))

\* ProfilesAPI.Query
Query(http, jwt, params, t, nonce, resp) ==
    LET Call(a) == Gated(a, Get(a.http, ProfilesPath, params, t, resp)) IN
    Call(EnsureAuth(http, jwt, t, nonce))

\* ProfilesAPI.Delete
ProfilesDelete(http, jwt, pId, t, nonce, resp) ==
    LET Call(a) == Gated(a, Delete(a.http, ProfilesPath \o <<"/", pId>>, NoParams, t, resp))
    IN Call(EnsureAuth(http, jwt, t, nonce))

----------------------------------------------------------------------------
(* Derived helpers of DeviceAPI.  The errors entries of a vendor body are  *)
(* JSON objects (the code asserts errors[0] to be one without a test).     *)

AlreadyExistsText == <<"already", "exists", "on", "this", "team">>

\* v.(string) with the ok test: the string, or "" when v is no string
StringOr(v, zero) == IF IsStr(v) THEN v.s ELSE zero

\* DeviceType{Success: false, Error: text}
FailedType(text) ==
    [Success |-> FALSE, DeviceClass |-> "", Model |-> "", Platform |-> "",
     Status |-> "", IsIPhone |-> FALSE, IsIPad |-> FALSE, IsMac |-> FALSE,
     Error |-> text]

\* DeviceType{Success: true, ...} from a device's attributes object
TypeOf(attributes) ==
    LET deviceClass == StringOr(Field(attributes, "deviceClass"), "") IN
    [Success |-> TRUE,
     DeviceClass |-> deviceClass,
     Model |-> StringOr(Field(attributes, "model"), ""),
     Platform |-> StringOr(Field(attributes, "platform"), ""),
     Status |-> StringOr(Field(attributes, "status"), ""),
     IsIPhone |-> deviceClass = "IPHONE",
     IsIPad |-> deviceClass = "IPAD",
     IsMac |-> deviceClass = "MAC",
     Error |-> EmptyString]

\* errors, ok := body["errors"].([]interface{}); ok && len(errors) > 0, and
\* errors[0]["detail"].(string) is a string
HasErrorDetail(body) ==
    LET errors == Field(body, "errors") IN
    /\ IsArr(errors)
    /\ Len(errors.a) > 0
    /\ IsStr(Field(errors.a[1], "detail"))

ErrorDetail(body) == Field(Field(body, "errors").a[1], "detail").s

UdidFilter == <<"filter", "[", "udid", "]">>
PlatformFilter == <<"filter", "[", "platform", "]">>
DeviceFields == <<"fields", "[", "devices", "]">>

\* DeviceAPI.GetDeviceType
GetDeviceType(http, jwt, udid, t, nonce, resp) ==
    LET params == (UdidFilter :> <<udid>>) @@
                  (DeviceFields :> <<"deviceClass", ",", "model", ",", "platform",
                                     ",", "status">>) IN
    LET Inspect(r, data) ==
          LET answer(dt) == [r EXCEPT !.value = dt, !.err = NilErr] IN
          IF ~r.err.nil THEN answer(FailedType(ErrorText(r.err)))
          ELSE IF HasErrorDetail(r.value) THEN answer(FailedType(ErrorDetail(r.value)))
          ELSE IF ~IsArr(data) \/ Len(data.a) = 0
               THEN answer(FailedType(<<"Device not found">>))
          ELSE IF ~IsObj(data.a[1]) THEN answer(FailedType(<<"Invalid device data">>))
          ELSE IF ~IsObj(Field(data.a[1], "attributes"))
               THEN answer(FailedType(<<"Invalid device attributes">>))
          ELSE answer(TypeOf(Field(data.a[1], "attributes"))) IN
    LET Response(r) == Inspect(r, Field(r.value, "data")) IN
    Response(All(http, jwt, params, t, nonce, resp))

\* DeviceAPI.RegisterAndGetType
RegisterAndGetType(http, jwt, name, platform, udid, t, nonce, resp, respLookup) ==
    LET Inspect(r, data) ==
          LET answer(dt) == [r EXCEPT !.value = dt, !.err = NilErr] IN
          IF ~r.err.nil THEN answer(FailedType(ErrorText(r.err)))
          ELSE IF HasErrorDetail(r.value)
               THEN IF Contains(ErrorDetail(r.value), AlreadyExistsText)
                    THEN Then(r, GetDeviceType(r.http, jwt, udid, t, nonce + r.parses,
                                               respLookup))
                    ELSE answer(FailedType(ErrorDetail(r.value)))
          ELSE IF ~IsObj(data) THEN answer(FailedType(<<"Invalid registration data">>))
          ELSE IF ~IsObj(Field(data, "attributes"))
               THEN answer(FailedType(<<"Invalid device attributes">>))
          ELSE answer(TypeOf(Field(data, "attributes"))) IN
    LET Registration(r) == Inspect(r, Field(r.value, "data")) IN
    Registration(Register(http, jwt, name, platform, udid, t, nonce, resp))

\* the vendor's ceiling of devices per class
DeviceCeiling == 100
\* Code of a DeviceSortResult that reports a failed Mac query
MacFailedCode == 1001

\* DeviceSortResult{} and its DataInfo{}
DataInfo(iPhone, iPad, mac, email) ==
    [IPHONE |-> iPhone, IPAD |-> iPad, MAC |-> mac, Email |-> email]
SortResult(code, msg, data) == [Code |-> code, Msg |-> msg, Data |-> data]
ZeroSortResult == SortResult(0, EmptyString, DataInfo(0, 0, 0, ""))

\* the deviceClass of one entry of a listing, "" when the entry is malformed
ClassOf(item) == StringOr(Field(Field(item, "attributes"), "deviceClass"), "")

\* CountClass that counts every entry of the listing
CountClassEveryEntry(body, class) ==
    LET data == Field(body, "data") IN
    IF IsArr(data) THEN Len(data.a) ELSE 0

\* the loop of DeviceSort over iOSData["data"]
CountClass(body, class) ==
    LET data == Field(body, "data") IN
    IF IsArr(data)
    THEN Cardinality({i \in 1..Len(data.a) : ClassOf(data.a[i]) = class})
    ELSE 0

\* meta.paging.total as an int, 0 when absent
MacTotal(body) ==
    LET total == Field(Field(Field(body, "meta"), "paging"), "total") IN
    IF total.t = "num" THEN total.n ELSE 0

\* data[0].attributes.username, "" when absent
UserEmail(body) ==
    LET data == Field(body, "data") IN
    IF IsArr(data) /\ Len(data.a) > 0
    THEN StringOr(Field(Field(data.a[1], "attributes"), "username"), "")
    ELSE ""

\* DeviceAPI.DeviceSort
DeviceSort(http, jwt, t, nonce, respIOS, respMac, respUsers) ==
    LET iOSParams == (PlatformFilter :> <<"IOS">>) @@ (DeviceFields :> <<"deviceClass">>)
                     @@ (<<"limit">> :> <<"200">>) IN
    LET macParams == (PlatformFilter :> <<"MAC_OS">>) @@ (DeviceFields :> <<"deviceClass">>) IN
    LET Users(ios, mac, g) ==
          IF ~g.err.nil
          THEN [mac EXCEPT !.reqs = mac.reqs \o <<g.req>>, !.value = ZeroSortResult,
                           !.err = g.err]
          ELSE [mac EXCEPT !.reqs = mac.reqs \o <<g.req>>,
                           !.value = SortResult(1, <<"ok">>,
                                        DataInfo(DeviceCeiling - CountClass(ios.value, "IPHONE"),
                                                 DeviceCeiling - CountClass(ios.value, "IPAD"),
                                                 DeviceCeiling - MacTotal(mac.value),
                                                 UserEmail(g.result))),
                           !.err = NilErr] IN
    LET Mac(ios, mac) ==
          IF ~mac.err.nil
          THEN [mac EXCEPT !.value = SortResult(MacFailedCode,
                                                <<"Failed to query Mac devices">>,
                                                DataInfo(0, 0, 0, "")),
                           !.err = NilErr]
          ELSE IF HasErrorDetail(mac.value)
          THEN [mac EXCEPT !.value = SortResult(MacFailedCode, ErrorDetail(mac.value),
                                                DataInfo(0, 0, 0, ""))]
          ELSE Users(ios, mac, Get(mac.http, UsersPath, NoParams, t, respUsers)) IN
    LET Ios(ios) ==
          IF ~ios.err.nil
          THEN [ios EXCEPT !.value = ZeroSortResult]
          ELSE Mac(ios, Then(ios, All(ios.http, jwt, macParams, t, nonce + ios.parses,
                                      respMac)))
    IN Ios(All(http, jwt, iOSParams, t, nonce, respIOS))

----------------------------------------------------------------------------
(* What the callers pass and what the network answers.                     *)

DetailExists == <<"A", "device", "with", "this", "UDID">> \o AlreadyExistsText
DetailOther == <<"This", "request", "is", "forbidden">>

ErrorsBody(detail) == JObj([errors |-> JArr(<<JObj([detail |-> JStr(detail)])>>)])
ErrorsNoDetail == JObj([errors |-> JArr(<<JObj([code |-> JStr(<<"CONFLICT">>)])>>)])
EmptyBody == JObj(<<>>)

DeviceItem(class) ==
    JObj([id |-> JStr(<<"D1">>),
          attributes |-> JObj([deviceClass |-> JStr(class), model |-> JStr("iPhone 15"),
                               platform |-> JStr("IOS"), status |-> JStr("ENABLED")])])
\* an entry whose attributes are not an object
MalformedItem == JObj([id |-> JStr(<<"D2">>), attributes |-> JStr("none")])

DeviceLists == {<<>>, <<DeviceItem("IPHONE")>>, <<DeviceItem("IPAD"), DeviceItem("IPHONE")>>,
                <<MalformedItem>>}
DeviceListBody(list) == JObj([data |-> JArr(list)])
\* the body of a successful POST /devices
DeviceBody == JObj([data |-> DeviceItem("IPHONE")])
MacBody == JObj([data |-> JArr(<<>>), meta |-> JObj([paging |-> JObj([total |-> JNum(2)])])])
UsersBody == JObj([data |-> JArr(<<JObj([attributes |->
                                            JObj([username |-> JStr("dev@example.com")])])>>)])

TransportFailure == [ok |-> FALSE]
Answer(status, raw) == [ok |-> TRUE, status |-> status, raw |-> raw]

\* the answers tried for a round trip: no answer, a success status and an
\* error status each with a body that is no JSON, null, and JSON objects
Responses ==
    {TransportFailure}
    \cup {Answer(st, raw) : st \in {200, 409}, raw \in {RawGarbage, RawNull}}
    \cup {Answer(st, RawObject(ErrorsBody(d))) : st \in {200, 409},
                                                 d \in {DetailExists, DetailOther}}
    \cup {Answer(200, RawObject(DeviceListBody(l))) : l \in DeviceLists}
    \cup {Answer(200, RawObject(DeviceBody)), Answer(200, RawObject(ErrorsNoDetail)),
          Answer(400, RawObject(EmptyBody))}

\* the answers tried for the lookup of RegisterAndGetType and for the later
\* round trips of DeviceSort
LookupResponses == {TransportFailure,
                    Answer(200, RawObject(DeviceListBody(<<DeviceItem("IPAD"),
                                                           DeviceItem("IPHONE")>>))),
                    Answer(200, RawObject(DeviceListBody(<<>>))),
                    Answer(409, RawObject(ErrorsBody(DetailOther)))}
IosResponses == {TransportFailure, Answer(200, RawGarbage),
                 Answer(409, RawObject(ErrorsBody(DetailOther)))}
                \cup {Answer(200, RawObject(DeviceListBody(l))) : l \in DeviceLists}
MacResponses == {TransportFailure, Answer(200, RawObject(MacBody)),
                 Answer(200, RawObject(ErrorsBody(DetailOther))),
                 Answer(409, RawObject(ErrorsBody(DetailOther)))}
UsersResponses == {TransportFailure, Answer(200, RawObject(UsersBody)),
                   Answer(400, RawObject(ErrorsBody(DetailOther)))}

Udids == {"ABC123"}
ParamSets == {NoParams, UdidFilter :> <<"ABC123">>}

----------------------------------------------------------------------------
(* The state of one Client.                                                *)

VARIABLES
    now,          \* the clock, epoch seconds (time.Now().Unix())
    jwtConfig,    \* Generator.config: Issuer, KeyID, PrivateKey
    httpConfig,   \* httpclient.Client.config: BaseURL, APIVersion, Token, Headers
    parseCount,   \* runs of Generator.parsePrivateKey so far
    mintCount,    \* successful GenerateToken calls so far
    authMints,    \* those of them made by EnsureAuth
    lastMint,     \* the last successful GenerateToken call: its token, its clock reading
    reqs,         \* the requests the last operation sent, in order
    ret,          \* the last operation and what it returned
    threads,      \* the threads inside a concurrent first call: where each is, its token
    storeOrder,   \* which word of a string the build's assignment stores first
    newConfig,    \* the Config NewClient was called with
    prevMint      \* the successful GenerateToken call before the last one, where recorded

vars == <<now, jwtConfig, httpConfig, parseCount, mintCount, authMints, lastMint, reqs, ret,
          threads, storeOrder, newConfig, prevMint>>

baseURI == "https://api.appstoreconnect.apple.com"
defaultAPIVersion == "v1"

\* Config.Secret: the empty string, the key text itself, the path of a file
\* that holds text, or a path os.Stat finds but os.ReadFile cannot read
SecretOf(kind, text) == [kind |-> kind, text |-> text]

\* NewGenerator that checks nothing
NewGeneratorUnchecked(config) == [ok |-> TRUE, config |-> config, err |-> NilErr]

\* jwtutil.NewGenerator
NewGenerator(config) ==
    IF config.Issuer = "" THEN [ok |-> FALSE, err |-> Err(<<"issuer is required">>)]
    ELSE IF config.KeyID = "" THEN [ok |-> FALSE, err |-> Err(<<"key id is required">>)]
    ELSE IF config.PrivateKey = KeyEmpty
    THEN [ok |-> FALSE, err |-> Err(<<"private key is required">>)]
    ELSE [ok |-> TRUE, config |-> config, err |-> NilErr]

\* the *Client a caller holds
ThisClient == [t |-> "client"]

\* appstore.NewClient: the Generator and the Transport it builds, or an error
NewClient(config) ==
    LET version == IF config.APIVersion = "" THEN defaultAPIVersion ELSE config.APIVersion IN
    LET Build(g) ==
          IF ~g.err.nil
          THEN [ok |-> FALSE, err |-> Wrap("failed to create JWT generator:", g.err)]
          ELSE [ok |-> TRUE, err |-> NilErr, jwt |-> g.config,
                http |-> [BaseURL |-> baseURI, APIVersion |-> version,
                          Token |-> EmptySlot, Headers |-> <<>>]] IN
    IF config.Issuer = "" THEN [ok |-> FALSE, err |-> Err(<<"issuer is required">>)]
    ELSE IF config.KeyID = "" THEN [ok |-> FALSE, err |-> Err(<<"key id is required">>)]
    ELSE IF config.Secret.kind = "empty"
    THEN [ok |-> FALSE, err |-> Err(<<"secret is required">>)]
    ELSE IF config.Secret.kind = "unreadable"
    THEN [ok |-> FALSE, err |-> Err(<<"failed to read secret file:", "read">>)]
    ELSE Build(NewGenerator([Issuer |-> config.Issuer, KeyID |-> config.KeyID,
                             PrivateKey |-> config.Secret.text]))

\* API whose switch lacks the case "certificates"
APIWithoutCertificates(c, name) ==
    CASE name = "device" -> [value |-> [t |-> "DeviceAPI", client |-> c], err |-> NilErr]
      [] name = "bundleId" -> [value |-> [t |-> "BundleIdAPI", client |-> c], err |-> NilErr]
      [] name = "bundleIdCapabilities" ->
           [value |-> [t |-> "BundleIdCapabilityAPI", client |-> c], err |-> NilErr]
      [] name = "profiles" -> [value |-> [t |-> "ProfilesAPI", client |-> c], err |-> NilErr]
      [] OTHER -> [value |-> JNil, err |-> Err(<<"undefined API:", name>>)]

\* Client.API on the client c
API(c, name) ==
    CASE name = "device" -> [value |-> [t |-> "DeviceAPI", client |-> c], err |-> NilErr]
      [] name = "bundleId" -> [value |-> [t |-> "BundleIdAPI", client |-> c], err |-> NilErr]
      [] name = "bundleIdCapabilities" ->
           [value |-> [t |-> "BundleIdCapabilityAPI", client |-> c], err |-> NilErr]
      [] name = "profiles" -> [value |-> [t |-> "ProfilesAPI", client |-> c], err |-> NilErr]
      [] name = "certificates" ->
           [value |-> [t |-> "CertificatesAPI", client |-> c], err |-> NilErr]
      [] OTHER -> [value |-> JNil, err |-> Err(<<"undefined API:", name>>)]

NoMint == [minted |-> FALSE]
Mint(token, t) == [minted |-> TRUE, token |-> token, at |-> t]

\* NewClient with a non-empty issuer, key id and secret and no API version,
\* used by one caller at a time (no thread is inside a concurrent call; the
\* order of the two stores of an assignment cannot be seen by that caller)
Init ==
    /\ now = StartTime
    /\ jwtConfig \in {[Issuer |-> "issuer-1", KeyID |-> "key-1", PrivateKey |-> k] :
                        k \in KeyTexts}
    /\ httpConfig = [BaseURL |-> baseURI, APIVersion |-> defaultAPIVersion,
                     Token |-> EmptySlot, Headers |-> <<>>]
    /\ parseCount = 0
    /\ mintCount = 0
    /\ authMints = 0
    /\ lastMint = NoMint
    /\ reqs = <<>>
    /\ ret = [op |-> "NewClient", value |-> ThisClient, err |-> NilErr]
    /\ threads = <<>>
    /\ storeOrder = "len"
    /\ newConfig = [Issuer |-> jwtConfig.Issuer, KeyID |-> jwtConfig.KeyID,
                    Secret |-> SecretOf("inline", jwtConfig.PrivateKey), APIVersion |-> ""]
    /\ prevMint = NoMint

\* the clock advances between two operations
Tick ==
    /\ now + TickStep <= StartTime + MaxTicks * TickStep
    /\ now' = now + TickStep
    /\ UNCHANGED <<jwtConfig, httpConfig, parseCount, mintCount, authMints, lastMint, reqs, ret,
                   threads, storeOrder, newConfig, prevMint>>

\* the key parser's runs are capped: an operation that would mint needs room
CanMint == httpConfig.Token.len = 0 => parseCount < MaxParses

\* an operation of a resource client returns r
Return(op, r) ==
    /\ httpConfig' = r.http
    /\ parseCount' = parseCount + r.parses
    /\ mintCount' = mintCount + Cardinality(r.minted)
    /\ authMints' = authMints + Cardinality(r.minted)
    /\ lastMint' = IF r.minted = {} THEN lastMint
                   ELSE Mint(CHOOSE tok \in r.minted : TRUE, now)
    /\ reqs' = r.reqs
    /\ ret' = [op |-> op, value |-> r.value, err |-> r.err]
    /\ UNCHANGED <<now, jwtConfig, threads, storeOrder, newConfig, prevMint>>

\* a direct call of Client.GetToken returns g: nothing is attached
ReturnToken(g) ==
    /\ parseCount' = parseCount + g.parses
    /\ mintCount' = mintCount + (IF g.err.nil THEN 1 ELSE 0)
    /\ lastMint' = IF g.err.nil THEN Mint(g.token, now) ELSE lastMint
    /\ ret' = [op |-> "GetToken", value |-> g.token, err |-> g.err]
    /\ reqs' = <<>>
    /\ UNCHANGED <<now, jwtConfig, httpConfig, authMints, threads, storeOrder, newConfig, prevMint>>

CallGetToken ==
    /\ parseCount < MaxParses
    /\ ReturnToken(GetToken(jwtConfig, now, mintCount + 1))

CallAll ==
    /\ CanMint
    /\ \E params \in ParamSets, resp \in Responses :
         Return("All", All(httpConfig, jwtConfig, params, now, mintCount + 1, resp))

CallRegister ==
    /\ CanMint
    /\ \E udid \in Udids, resp \in Responses :
         Return("Register",
                Register(httpConfig, jwtConfig, <<"phone">>, "ios", udid, now,
                         mintCount + 1, resp))

CallQuery ==
    /\ CanMint
    /\ \E params \in {NoParams}, resp \in Responses :
         Return("Query", Query(httpConfig, jwtConfig, params, now, mintCount + 1, resp))

CallProfilesDelete ==
    /\ CanMint
    /\ \E resp \in Responses :
         Return("ProfilesDelete",
                ProfilesDelete(httpConfig, jwtConfig, "P1", now, mintCount + 1, resp))

CallGetDeviceType ==
    /\ CanMint
    /\ \E udid \in Udids, resp \in Responses :
         Return("GetDeviceType",
                GetDeviceType(httpConfig, jwtConfig, udid, now, mintCount + 1, resp))

CallRegisterAndGetType ==
    /\ CanMint
    /\ \E udid \in Udids, resp \in Responses, respLookup \in LookupResponses :
         Return("RegisterAndGetType",
                RegisterAndGetType(httpConfig, jwtConfig, <<"phone">>, "ios", udid, now,
                                   mintCount + 1, resp, respLookup))

CallDeviceSort ==
    /\ CanMint
    /\ \E respIOS \in IosResponses, respMac \in MacResponses, respUsers \in UsersResponses :
         Return("DeviceSort",
                DeviceSort(httpConfig, jwtConfig, now, mintCount + 1, respIOS, respMac,
                           respUsers))

Next ==
    \/ Tick
    \/ CallGetToken
    \/ CallAll
    \/ CallRegister
    \/ CallQuery
    \/ CallProfilesDelete
    \/ CallGetDeviceType
    \/ CallRegisterAndGetType
    \/ CallDeviceSort

Spec == Init /\ [][Next]_vars

----------------------------------------------------------------------------
(* Several threads make their first call, DeviceAPI.All(nil), on one fresh *)
(* Client at the same time.  Nothing orders their accesses to config.Token,*)
(* so the steps of All are taken one at a time: the test of EnsureAuth     *)
(* (a read of the slot), the mint, the two stores of SetToken's            *)
(* assignment, and Get (a second read of the slot).  A reader that finds a *)
(* length without its bytes faults when GetHeaders copies them ("Bearer "  *)
(* + Token): a nil dereference, which ends the program.                    *)

Threads == 1..NThreads

InitConc ==
    /\ now = StartTime
    /\ jwtConfig \in {[Issuer |-> "issuer-1", KeyID |-> "key-1", PrivateKey |-> k] :
                        k \in {KeyPKCS8EC, KeyPKCS1RSA}}
    /\ httpConfig = [BaseURL |-> baseURI, APIVersion |-> defaultAPIVersion,
                     Token |-> EmptySlot, Headers |-> <<>>]
    /\ parseCount = 0
    /\ mintCount = 0
    /\ authMints = 0
    /\ lastMint = NoMint
    /\ reqs = <<>>
    /\ ret = [op |-> "NewClient", value |-> ThisClient, err |-> NilErr]
    /\ threads = [t \in Threads |-> [pc |-> "check", token |-> EmptyString]]
    /\ storeOrder \in {"len", "ptr"}
    /\ newConfig = [Issuer |-> jwtConfig.Issuer, KeyID |-> jwtConfig.KeyID,
                    Secret |-> SecretOf("inline", jwtConfig.PrivateKey), APIVersion |-> ""]
    /\ prevMint = NoMint

\* a thread faulted: the program has ended
Crashed == \E t \in Threads : threads[t].pc = "panic"

At(t, pc) == ~Crashed /\ threads[t].pc = pc
Goto(t, pc) == threads' = [threads EXCEPT ![t].pc = pc]

\* EnsureAuth's test: c.httpClient.GetHeaders()["Authorization"] == ""
ThreadCheck(t) ==
    /\ At(t, "check")
    /\ Goto(t, IF Torn(httpConfig.Token) THEN "panic"
               ELSE IF HeaderValue(GetHeaders(httpConfig), "Authorization") = EmptyString
               THEN "mint"
               ELSE "send")
    /\ UNCHANGED <<now, jwtConfig, httpConfig, parseCount, mintCount, authMints, lastMint,
                   reqs, ret, storeOrder, newConfig, prevMint>>

\* EnsureAuth's c.GetToken() returned g: go on to SetToken, or return the error
ThreadMinted(t, g) ==
    /\ parseCount' = parseCount + g.parses
    /\ mintCount' = mintCount + (IF g.err.nil THEN 1 ELSE 0)
    /\ authMints' = authMints + (IF g.err.nil THEN 1 ELSE 0)
    /\ lastMint' = IF g.err.nil THEN Mint(g.token, now) ELSE lastMint
    /\ threads' = [threads EXCEPT ![t] = IF g.err.nil
                                         THEN [pc |-> "store", token |-> g.token]
                                         ELSE [pc |-> "done", token |-> EmptyString]]
    /\ ret' = IF g.err.nil THEN ret ELSE [op |-> "All", value |-> JNil, err |-> g.err]
    /\ UNCHANGED <<now, jwtConfig, httpConfig, reqs, storeOrder, newConfig, prevMint>>

ThreadMint(t) ==
    /\ At(t, "mint")
    /\ ThreadMinted(t, GetToken(jwtConfig, now, mintCount + 1))

\* the slot after one word of the assignment c.config.Token = token
StoreWord(slot, word, token) ==
    IF word = "len" THEN [slot EXCEPT !.len = Len(token)]
    ELSE [slot EXCEPT !.ptr = token]

OtherWord(word) == IF word = "len" THEN "ptr" ELSE "len"

\* SetToken: the first store of the assignment
ThreadStoreFirst(t) ==
    /\ At(t, "store")
    /\ httpConfig' = [httpConfig EXCEPT
                        !.Token = StoreWord(@, storeOrder, threads[t].token)]
    /\ Goto(t, "store2")
    /\ UNCHANGED <<now, jwtConfig, parseCount, mintCount, authMints, lastMint, reqs, ret,
                   storeOrder, newConfig, prevMint>>

\* SetToken: the second store of the assignment
ThreadStoreSecond(t) ==
    /\ At(t, "store2")
    /\ httpConfig' = [httpConfig EXCEPT
                        !.Token = StoreWord(@, OtherWord(storeOrder), threads[t].token)]
    /\ Goto(t, "send")
    /\ UNCHANGED <<now, jwtConfig, parseCount, mintCount, authMints, lastMint, reqs, ret,
                   storeOrder, newConfig, prevMint>>

\* Get("/devices", nil) returned g
ThreadSent(t, g) ==
    /\ reqs' = Append(reqs, g.req)
    /\ ret' = [op |-> "All", value |-> g.result, err |-> g.err]
    /\ Goto(t, "done")

\* All's transport call: GetHeaders reads the slot, the request leaves
ThreadSend(t) ==
    /\ At(t, "send")
    /\ IF Torn(httpConfig.Token)
       THEN Goto(t, "panic") /\ UNCHANGED <<reqs, ret>>
       ELSE \E resp \in {TransportFailure, Answer(200, RawObject(DeviceListBody(<<>>)))} :
              ThreadSent(t, Get(httpConfig, DevicesPath, NoParams, now, resp))
    /\ UNCHANGED <<now, jwtConfig, httpConfig, parseCount, mintCount, authMints, lastMint,
                   storeOrder, newConfig, prevMint>>

NextConc ==
    \E t \in Threads :
        \/ ThreadCheck(t)
        \/ ThreadMint(t)
        \/ ThreadStoreFirst(t)
        \/ ThreadStoreSecond(t)
        \/ ThreadSend(t)

SpecConc == InitConc /\ [][NextConc]_vars

----------------------------------------------------------------------------
(* Construction and lookup.  A caller builds a Config, calls NewClient,    *)
(* and on the client it gets back looks resource clients up by name and    *)
(* lists devices.  Before NewClient returns a client there is none: the    *)
(* Generator's and the Transport's configurations hold Go's zero values.   *)

\* the Configs callers pass to NewClient
FacadeConfigs ==
    [Issuer : {"", "issuer-1"}, KeyID : {"", "key-1"},
     Secret : {SecretOf("empty", KeyEmpty), SecretOf("inline", KeyPKCS8EC),
               SecretOf("inline", KeyNoPEM), SecretOf("file", KeyPKCS8EC),
               SecretOf("file", KeyEmpty), SecretOf("unreadable", KeyEmpty)},
     APIVersion : {"", "v2"}]

\* the names callers pass to Client.API
ApiNames == {"device", "bundleId", "bundleIdCapabilities", "profiles", "certificates",
             "devices", "Device", ""}

InitFacade ==
    /\ now = StartTime
    /\ jwtConfig = [Issuer |-> "", KeyID |-> "", PrivateKey |-> KeyEmpty]
    /\ httpConfig = [BaseURL |-> "", APIVersion |-> "", Token |-> EmptySlot,
                     Headers |-> <<>>]
    /\ parseCount = 0
    /\ mintCount = 0
    /\ authMints = 0
    /\ lastMint = NoMint
    /\ reqs = <<>>
    /\ ret = [op |-> "none", value |-> JNil, err |-> NilErr]
    /\ threads = <<>>
    /\ storeOrder = "len"
    /\ newConfig \in FacadeConfigs
    /\ prevMint = NoMint

\* the caller holds a client: NewClient returned one
Constructed == ret.op # "none" /\ ~(ret.op = "NewClient" /\ ~ret.err.nil)

\* NewClient(newConfig) returned c
FacadeBuilt(c) ==
    /\ jwtConfig' = IF c.ok THEN c.jwt ELSE jwtConfig
    /\ httpConfig' = IF c.ok THEN c.http ELSE httpConfig
    /\ ret' = [op |-> "NewClient", value |-> IF c.ok THEN ThisClient ELSE JNil,
               err |-> c.err]
    /\ UNCHANGED <<now, parseCount, mintCount, authMints, lastMint, reqs, threads,
                   storeOrder, newConfig, prevMint>>

FacadeNewClient ==
    /\ ret.op = "none"
    /\ FacadeBuilt(NewClient(newConfig))

\* c.API(name) returned r
FacadeLooked(name, r) ==
    /\ ret' = [op |-> "API", name |-> name, value |-> r.value, err |-> r.err]
    /\ reqs' = <<>>
    /\ UNCHANGED <<now, jwtConfig, httpConfig, parseCount, mintCount, authMints, lastMint,
                   threads, storeOrder, newConfig, prevMint>>

FacadeAPI ==
    /\ Constructed
    /\ \E name \in ApiNames : FacadeLooked(name, API(ThisClient, name))

\* DeviceAPI.All on the client
FacadeAll ==
    /\ Constructed
    /\ CallAll

NextFacade ==
    \/ FacadeNewClient
    \/ FacadeAPI
    \/ FacadeAll

SpecFacade == InitFacade /\ [][NextFacade]_vars

----------------------------------------------------------------------------
(* Slot accounting.  DeviceSort is called on a client whose iOS query is   *)
(* answered with every listing of up to MaxDevices entries: iPhones,       *)
(* iPads, devices of another class and malformed entries, in any order.    *)

SortLists ==
    UNION {[1..n -> {DeviceItem("IPHONE"), DeviceItem("IPAD"), DeviceItem("IPOD"),
                     MalformedItem}] : n \in 0..MaxDevices}

CallDeviceSortLists ==
    /\ CanMint
    /\ \E l \in SortLists, respUsers \in {TransportFailure, Answer(200, RawObject(UsersBody))} :
         Return("DeviceSort",
                DeviceSort(httpConfig, jwtConfig, now, mintCount + 1,
                           Answer(200, RawObject(DeviceListBody(l))),
                           Answer(200, RawObject(MacBody)), respUsers))

NextSort == CallDeviceSortLists

SpecSort == Init /\ [][NextSort]_vars

----------------------------------------------------------------------------
(* Consecutive mints.  A caller calls Client.GetToken again and again      *)
(* while the clock advances second by second; prevMint keeps the mint      *)
(* before the last one.                                                    *)

TickSecond ==
    /\ now < StartTime + MaxSeconds
    /\ now' = now + 1
    /\ UNCHANGED <<jwtConfig, httpConfig, parseCount, mintCount, authMints, lastMint, reqs,
                   ret, threads, storeOrder, newConfig, prevMint>>

MintAgain ==
    LET Returned(g) ==
          /\ parseCount' = parseCount + g.parses
          /\ mintCount' = mintCount + (IF g.err.nil THEN 1 ELSE 0)
          /\ lastMint' = IF g.err.nil THEN Mint(g.token, now) ELSE lastMint
          /\ prevMint' = IF g.err.nil THEN lastMint ELSE prevMint
          /\ ret' = [op |-> "GetToken", value |-> g.token, err |-> g.err]
          /\ reqs' = <<>>
          /\ UNCHANGED <<now, jwtConfig, httpConfig, authMints, threads, storeOrder,
                         newConfig>> IN
    /\ parseCount <= MaxParses
    /\ Returned(GetToken(jwtConfig, now, mintCount + 1))

NextMint ==
    \/ TickSecond
    \/ MintAgain

SpecMint == Init /\ [][NextMint]_vars

----------------------------------------------------------------------------
(* The Transport on its own.  A caller takes the Transport of a client     *)
(* (GetHTTPClient) and calls Get, PostJSON and Delete with parameter maps  *)
(* whose keys and values hold reserved characters, against every kind of   *)
(* answer: none, and each status with each kind of body.                   *)

\* the parameter maps: every map from a subset of two keys to three values
QueryParams ==
    UNION {[K -> {<<"ABC123">>, <<"a", " ", "b", "+", "%">>, <<>>}] :
             K \in SUBSET {UdidFilter, <<"q", "=", "&">>}}

TransportResponses ==
    {TransportFailure}
    \cup {Answer(st, raw) : st \in {200, 204, 399, 400, 404},
                            raw \in {RawEmpty, RawGarbage, RawNull, RawObject(EmptyBody),
                                     RawObject(ErrorsBody(DetailOther))}}

\* a call of the Transport with params returned g
TransportReturned(op, params, g) ==
    /\ reqs' = <<g.req>>
    /\ ret' = [op |-> op, params |-> params, value |-> g.result, err |-> g.err]
    /\ UNCHANGED <<now, jwtConfig, httpConfig, parseCount, mintCount, authMints, lastMint,
                   threads, storeOrder, newConfig, prevMint>>

TransportGet ==
    \E params \in QueryParams, resp \in TransportResponses :
        TransportReturned("Get", params, Get(httpConfig, DevicesPath, params, now, resp))

TransportPostJSON ==
    \E resp \in TransportResponses :
        TransportReturned("PostJSON", NoParams,
                          PostJSON(httpConfig, DevicesPath, JObj(<<>>), now, resp))

TransportDelete ==
    \E params \in {p \in QueryParams : Cardinality(DOMAIN p) < 2},
       resp \in TransportResponses :
        TransportReturned("Delete", params,
                          Delete(httpConfig, ProfilesPath \o <<"/", "P1">>, params, now, resp))

NextTransport ==
    \/ TransportGet
    \/ TransportPostJSON
    \/ TransportDelete

SpecTransport == Init /\ [][NextTransport]_vars

----------------------------------------------------------------------------
(* What the properties read off the state.                                 *)

\* the token attached to the Transport, "" when none is
Attached == SlotString(httpConfig.Token)

BaseOps == {"All", "Register", "Query", "ProfilesDelete"}
TypeOps == {"GetDeviceType", "RegisterAndGetType"}
ResourceOps == BaseOps \cup TypeOps \cup {"DeviceSort"}

\* the i-th request of the last operation got no answer, or a status >= 400
RequestFailed(i) ==
    \/ ~reqs[i].answer.ok
    \/ reqs[i].answer.status >= 400

\* the i-th request was answered with a status >= 400
ErrorStatusAnswer(i) == reqs[i].answer.ok /\ reqs[i].answer.status >= 400

\* the last operation was one of a resource client and a step of it failed:
\* the mint inside EnsureAuth (no request was sent), or a request
StepFailed ==
    /\ ret.op \in ResourceOps
    /\ \/ reqs = <<>>
       \/ \E i \in 1..Len(reqs) : RequestFailed(i)

\* tok is a token of this client's Token Issuer: signed with the configured
\* key, with the configured issuer and key ID
MintedHere(tok) ==
    /\ Len(tok) = 3
    /\ tok[1] = TokenHeader(jwtConfig)
    /\ tok[2].iss = jwtConfig.Issuer /\ tok[2].aud = jwtAud
    /\ tok[3].signedBy = parsePrivateKey(jwtConfig).key
    /\ parsePrivateKey(jwtConfig).err.nil

\* the bearer token a request carries, "" when it carries none
Bearer(req) ==
    LET auth == HeaderValue(req.headers, "Authorization") IN
    IF Len(auth) > 1 THEN Tail(auth) ELSE EmptyString

----------------------------------------------------------------------------
(* C1: EnsureAuth is a presence check only.  Once a token is attached to   *)
(* the Transport, no later operation of a resource client mints or         *)
(* attaches another one: the attached token stays the same and the mints   *)
(* made by EnsureAuth stay at 1, also after the clock passed the token's   *)
(* exp.                                                                    *)
C1_PresenceCheckOnly ==
    [][httpConfig.Token.len # 0 =>
         /\ httpConfig'.Token = httpConfig.Token
         /\ authMints = 1
         /\ authMints' = 1]_vars

\* an operation sent a request with the attached token at or after its exp
C1_Witness ==
    /\ httpConfig.Token.len # 0
    /\ authMints = 1
    /\ reqs # <<>>
    /\ Bearer(reqs[1]) = Attached
    /\ reqs[1].at >= Attached[2].exp

(* C2: when POST /devices is answered with a status >= 400 and a body      *)
(* whose errors[0].detail contains "already exists on this team",          *)
(* RegisterAndGetType looks the device up by UDID (a second request,       *)
(* GET /devices with filter[udid]) and reports what the lookup found       *)
(* instead of reporting the conflict as a failure.                         *)
C2_ConflictFallsBack ==
    (/\ ret.op = "RegisterAndGetType"
     /\ reqs # <<>>
     /\ ErrorStatusAnswer(1)
     /\ reqs[1].answer.raw.w = "object"
     /\ HasErrorDetail(reqs[1].answer.raw.v)
     /\ Contains(ErrorDetail(reqs[1].answer.raw.v), AlreadyExistsText))
    => /\ Len(reqs) = 2
       /\ reqs[2].method = "GET"
       /\ reqs[2].url.url.path = DevicesPath
       /\ \E j \in 1..Len(ParseQuery(Tail(reqs[2].url.query))) :
            ParseQuery(Tail(reqs[2].url.query))[j][1] = UdidFilter
       /\ (reqs[2].answer.ok /\ reqs[2].answer.status < 400
             /\ reqs[2].answer.raw = RawObject(DeviceListBody(<<DeviceItem("IPAD"),
                                                                DeviceItem("IPHONE")>>)))
          => ret.value = TypeOf(DeviceItem("IPAD").f.attributes)

(* C3: every successful GenerateToken call made at clock reading t gives   *)
(* iat = t - 60 and exp = t + 1140: exp - iat is exactly 1200 seconds and  *)
(* exp is less than 20 minutes after t.                                    *)
C3_ClaimTimes ==
    lastMint.minted =>
        /\ lastMint.token[2].iat = lastMint.at - 60
        /\ lastMint.token[2].exp = lastMint.at + 1140
        /\ lastMint.token[2].exp - lastMint.token[2].iat = 1200
        /\ lastMint.token[2].exp < lastMint.at + 20 * 60

\* a token was minted after the clock advanced
C3_Witness == lastMint.minted /\ lastMint.at > StartTime

(* C4: every token GenerateToken returns has header alg = "ES256" and kid  *)
(* = the configured key ID, claims iss = the configured issuer and aud =   *)
(* "appstoreconnect-v1"; no operation changes the configured issuer and    *)
(* key ID.                                                                 *)
C4_HeaderAndIdentity ==
    /\ [](lastMint.minted =>
            /\ lastMint.token[1].alg = "ES256"
            /\ lastMint.token[1].kid = jwtConfig.KeyID
            /\ lastMint.token[2].iss = jwtConfig.Issuer
            /\ lastMint.token[2].aud = "appstoreconnect-v1")
    /\ [][jwtConfig' = jwtConfig]_vars

\* a second token was minted
C4_Witness == lastMint.minted /\ mintCount = 2

(* C5 as stated: every failure of an underlying step (mint, transport,     *)
(* status >= 400) inside a public operation is returned to the caller as a *)
(* non-nil error.                                                          *)
C5_FailureIsAnError == StepFailed => ~ret.err.nil

(* C5 as amended: every such failure ends the operation and is reported to *)
(* its caller: by the base methods and by DeviceSort's iOS and /users      *)
(* queries as a non-nil error; by GetDeviceType and RegisterAndGetType     *)
(* with a nil error, as DeviceType{Success: false} whose Error is the      *)
(* error's text; by DeviceSort's Mac query with a nil error, as Code 1001  *)
(* with a Msg.  No failed step is made again: a failed request is the last *)
(* request of its operation.                                               *)
C5_FailureIsReported ==
    StepFailed =>
        /\ ret.op \in BaseOps => ~ret.err.nil
        /\ ret.op \in TypeOps =>
             /\ ret.err.nil
             /\ ~ret.value.Success
             /\ ret.value.Error # EmptyString
        /\ ret.op = "DeviceSort" =>
             IF Len(reqs) = 2
             THEN ret.err.nil /\ ret.value.Code = 1001 /\ ret.value.Msg # EmptyString
             ELSE ~ret.err.nil
        /\ \A i \in 1..Len(reqs) : RequestFailed(i) => i = Len(reqs)

\* GetDeviceType reported a transport failure with a nil error
C5_Witness ==
    /\ ret.op = "GetDeviceType"
    /\ reqs # <<>>
    /\ ~reqs[1].answer.ok
    /\ ret.err.nil
    /\ ~ret.value.Success

(* C6 as stated: whenever the remote call answers with a status >= 400,    *)
(* Get, PostJSON and Delete return a non-nil parsed body together with a   *)
(* non-nil error, and the base methods hand both back unchanged.           *)
C6_ErrorStatusGivesBody ==
    (ret.op \in BaseOps /\ reqs # <<>> /\ ErrorStatusAnswer(1))
    => ret.value # JNil /\ ~ret.err.nil

(* C6 as amended: whenever the remote call answers with a status >= 400,   *)
(* Get, PostJSON and Delete return a non-nil error, and the base methods   *)
(* hand it and the result back unchanged; the result is the parsed body    *)
(* (non-nil) when the body is a JSON object, and nil when the body is JSON *)
(* null or does not parse (the error is then the parse error).             *)
C6_ErrorStatusGivesParsedObject ==
    (ret.op \in BaseOps /\ reqs # <<>> /\ ErrorStatusAnswer(1))
    => /\ ~ret.err.nil
       /\ reqs[1].answer.raw.w = "object" =>
            /\ ret.value = reqs[1].answer.raw.v
            /\ ret.value # JNil
            /\ ret.err = Err(<<"API request failed with status",
                               ToString(reqs[1].answer.status)>>)
       /\ reqs[1].answer.raw.w = "null" =>
            /\ ret.value = JNil
            /\ ret.err = Err(<<"API request failed with status",
                               ToString(reqs[1].answer.status)>>)
       /\ reqs[1].answer.raw.w = "garbage" =>
            /\ ret.value = JNil
            /\ ret.err.msg[1] = "failed to parse JSON:"

\* Register handed back the vendor's error body of a 409 with the error
C6_Witness ==
    /\ ret.op = "Register"
    /\ reqs # <<>>
    /\ ErrorStatusAnswer(1)
    /\ ret.value = ErrorsBody(DetailExists)
    /\ ~ret.err.nil

(* C7 as stated: across any sequence of mints on one Client the key parser *)
(* runs at most once.                                                      *)
C7_ParsedAtMostOnce == lastMint.minted => parseCount <= 1

(* C7 as amended: the Generator holds the PEM text, which no operation     *)
(* changes, and the key parser runs once in every GenerateToken call:      *)
(* every GetToken call, and every operation of a resource client that      *)
(* finds no token attached, runs it exactly once, and nothing else runs it.*)
C7_ParsedOnEveryMint ==
    [][/\ jwtConfig'.PrivateKey = jwtConfig.PrivateKey
       /\ parseCount' - parseCount =
            IF now' = now /\ (ret'.op = "GetToken" \/ httpConfig.Token.len = 0)
            THEN 1 ELSE 0]_vars

\* two tokens were minted, the key parser ran twice
C7_Witness == parseCount = 2 /\ mintCount = 2

(* C8: the key parser by class of input: a valid EC private key in PKCS#8  *)
(* form or in its other (non-PKCS#8) PEM form parses to an EC key; a text  *)
(* with no PEM block fails; a PEM block that parses neither as PKCS#8 nor  *)
(* as PKCS#1 fails; an RSA key in either container fails with the key-type *)
(* error; PKCS#8 is tried before PKCS#1.                                   *)
C8_ParserOutcomes ==
    parseCount > 0 =>
      LET text == jwtConfig.PrivateKey IN
      LET Outcomes(p) ==
            /\ (text.pem /\ text.family = "ec") => (p.err.nil /\ p.key.family = "ec")
            /\ ~text.pem => ~p.err.nil
            /\ (text.pem /\ text.container \notin {"pkcs8", "pkcs1"}
                  /\ text.family # "ec") => ~p.err.nil
            /\ (text.pem /\ text.family = "rsa") =>
                  p.err = Err(<<"private key is not ECDSA">>)
            /\ p.tried # <<>> => p.tried[1] = "pkcs8"
      IN Outcomes(parsePrivateKey(jwtConfig))

(* C9: when several threads make their first call at the same time on a   *)
(* Client with an empty token slot, every interleaving ends with the slot  *)
(* holding exactly one of the tokens those calls minted, every request     *)
(* sent carries a non-empty token minted by this client, and there are at  *)
(* most as many mints as callers.                                          *)
C9_RaceIsHarmless ==
    /\ mintCount <= NThreads
    /\ \A i \in 1..Len(reqs) :
         Bearer(reqs[i]) # EmptyString /\ MintedHere(Bearer(reqs[i]))
    /\ (Crashed \/ \A t \in Threads : threads[t].pc = "done") =>
         (lastMint.minted =>
            /\ ~Torn(httpConfig.Token)
            /\ \E t \in Threads : threads[t].token = Attached /\ Attached # EmptyString)

(* C10: every request an operation of a resource client sends carries a    *)
(* bearer token minted by this client's Token Issuer that is valid when    *)
(* the request is sent: the send time is before the token's exp.           *)
C10_RequestsCarryValidToken ==
    \A i \in 1..Len(reqs) :
        /\ Bearer(reqs[i]) # EmptyString
        /\ MintedHere(Bearer(reqs[i]))
        /\ reqs[i].at < Bearer(reqs[i])[2].exp

(* C11: NewClient returns an error and no client whenever the issuer, the  *)
(* key ID or the secret of its Config is empty; when it returns a client,  *)
(* all three are non-empty and the Generator holds them; and every request *)
(* of a client built with no API version has "v1" as the version segment   *)
(* of its URL (the configured version otherwise).                          *)
C11_ConstructionValidates ==
    LET anyEmpty == \/ newConfig.Issuer = ""
                    \/ newConfig.KeyID = ""
                    \/ newConfig.Secret.kind = "empty" IN
    /\ ret.op = "NewClient" =>
         /\ anyEmpty => (~ret.err.nil /\ ret.value = JNil)
         /\ ~ret.err.nil => ret.value = JNil
         /\ ret.err.nil =>
              /\ ~anyEmpty
              /\ ret.value = ThisClient
              /\ jwtConfig.Issuer = newConfig.Issuer /\ jwtConfig.Issuer # ""
              /\ jwtConfig.KeyID = newConfig.KeyID /\ jwtConfig.KeyID # ""
              /\ jwtConfig.PrivateKey = newConfig.Secret.text
              /\ jwtConfig.PrivateKey # KeyEmpty
    /\ \A i \in 1..Len(reqs) :
         reqs[i].url.url.version =
           IF newConfig.APIVersion = "" THEN "v1" ELSE newConfig.APIVersion

\* a client built with no API version sent a request
C11_Witness ==
    /\ ret.op = "All"
    /\ newConfig.APIVersion = ""
    /\ reqs # <<>>
    /\ reqs[1].url.url.version = "v1"

\* NewClient refused a Config whose secret is empty
C11_WitnessRefused ==
    /\ ret.op = "NewClient"
    /\ newConfig.Issuer # "" /\ newConfig.KeyID # ""
    /\ newConfig.Secret.kind = "empty"
    /\ ~ret.err.nil

(* C12: Client.API(name) returns, with a nil error, the resource client of *)
(* the name for "device", "bundleId", "bundleIdCapabilities", "profiles"   *)
(* and "certificates", bound to the client it was called on; for every     *)
(* other name it returns no client and an error.  The lookup mints no      *)
(* token, runs no key parser, sends no request and changes neither the     *)
(* Generator's nor the Transport's configuration.                          *)
C12_LookupByName ==
    /\ [](ret.op = "API" =>
            LET Bound(kind) ==
                  ret.value = [t |-> kind, client |-> ThisClient] /\ ret.err.nil IN
            /\ ret.name = "device" => Bound("DeviceAPI")
            /\ ret.name = "bundleId" => Bound("BundleIdAPI")
            /\ ret.name = "bundleIdCapabilities" => Bound("BundleIdCapabilityAPI")
            /\ ret.name = "profiles" => Bound("ProfilesAPI")
            /\ ret.name = "certificates" => Bound("CertificatesAPI")
            /\ ret.name \notin {"device", "bundleId", "bundleIdCapabilities", "profiles",
                                "certificates"} =>
                 (ret.value = JNil /\ ~ret.err.nil)
            /\ reqs = <<>>)
    /\ [][ret'.op = "API" =>
            UNCHANGED <<jwtConfig, httpConfig, parseCount, mintCount, authMints,
                        lastMint>>]_vars

\* the certificates client was looked up on a client that holds a token
C12_Witness ==
    /\ ret.op = "API"
    /\ ret.name = "certificates"
    /\ ret.value.t = "CertificatesAPI"
    /\ httpConfig.Token.len # 0

\* an unknown name was refused
C12_WitnessUnknown == ret.op = "API" /\ ret.name = "devices" /\ ~ret.err.nil

(* C13: when the iOS listing answered to DeviceSort holds N entries of     *)
(* class IPHONE and M of class IPAD, entries of other classes and          *)
(* malformed entries aside, and the Mac query and GET /users succeed, the  *)
(* result has Code = 1, Data.IPHONE = 100 - N and Data.IPAD = 100 - M.     *)
C13_SlotAccounting ==
    (/\ ret.op = "DeviceSort"
     /\ Len(reqs) = 3
     /\ ret.err.nil)
    => LET l == reqs[1].answer.raw.v.f.data.a IN
       LET N == Cardinality({i \in 1..Len(l) : l[i] = DeviceItem("IPHONE")}) IN
       LET M == Cardinality({i \in 1..Len(l) : l[i] = DeviceItem("IPAD")}) IN
       /\ ret.value.Code = 1
       /\ ret.value.Data.IPHONE = 100 - N
       /\ ret.value.Data.IPAD = 100 - M

\* a listing of two iPhones and a malformed entry was counted
C13_Witness ==
    /\ ret.op = "DeviceSort"
    /\ Len(reqs) = 3
    /\ ret.err.nil
    /\ reqs[1].answer.raw.v.f.data.a =
         <<DeviceItem("IPHONE"), MalformedItem, DeviceItem("IPHONE")>>
    /\ ret.value.Data.IPHONE = 98
    /\ ret.value.Data.IPAD = 100

(* C14: each GenerateToken call reads the clock itself.  Of two            *)
(* consecutive mints of one Generator the second's iat and exp are the     *)
(* first's shifted by exactly the difference of the two clock readings, so *)
(* when the readings differ by a second or more the two tokens carry       *)
(* different iat and exp and the second does not repeat the first's        *)
(* claims; each mint's iat is its own clock reading less 60 seconds.       *)
C14_ClockReadOnEveryMint ==
    (prevMint.minted /\ lastMint.minted) =>
       LET d == lastMint.at - prevMint.at IN
       /\ lastMint.token[2].iat - prevMint.token[2].iat = d
       /\ lastMint.token[2].exp - prevMint.token[2].exp = d
       /\ lastMint.token[2].iat = lastMint.at - 60
       /\ d >= 1 =>
            /\ lastMint.token[2].iat # prevMint.token[2].iat
            /\ lastMint.token[2].exp # prevMint.token[2].exp
            /\ lastMint.token[2] # prevMint.token[2]

\* two consecutive mints one second apart
C14_Witness ==
    /\ prevMint.minted
    /\ lastMint.minted
    /\ lastMint.at = prevMint.at + 1

(* C15: the parameters of a GET round-trip into the request.  Decoding the *)
(* query string of the request Get sent gives exactly the pairs of the     *)
(* parameter map it was passed: one pair for each key, the key and the     *)
(* value unchanged; with an empty (or nil) map the URL has no query        *)
(* string.                                                                 *)
C15_ParamsRoundTrip ==
    ret.op = "Get" =>
       LET q == reqs[1].url.query IN
       IF DOMAIN ret.params = {}
       THEN q = NoQuery
       ELSE /\ q[1] = "?"
            /\ Len(ParseQuery(Tail(q))) = Cardinality(DOMAIN ret.params)
            /\ {ParseQuery(Tail(q))[j] : j \in 1..Len(ParseQuery(Tail(q)))}
                 = {<<k, ret.params[k]>> : k \in DOMAIN ret.params}

\* a GET was sent with two parameters whose texts hold reserved characters
C15_Witness ==
    /\ ret.op = "Get"
    /\ DOMAIN ret.params = {UdidFilter, <<"q", "=", "&">>}
    /\ ret.params[UdidFilter] = <<"ABC123">>
    /\ ret.params[<<"q", "=", "&">>] = <<"a", " ", "b", "+", "%">>
    /\ Len(reqs[1].url.query) > 1

(* C17 as stated: Get, PostJSON and Delete return a nil error if and only  *)
(* if the request was sent, the response body parsed as a JSON object and  *)
(* the status was below 400.                                               *)
C17_NilErrorIffObject ==
    ret.op \in {"Get", "PostJSON", "Delete"} =>
       (ret.err.nil <=> /\ reqs[1].answer.ok
                        /\ reqs[1].answer.raw.w = "object"
                        /\ reqs[1].answer.status < 400)

(* C17 as amended: Get, PostJSON and Delete return a nil error if and only *)
(* if the request was sent, json.Unmarshal accepted the body (a JSON       *)
(* object, or the literal null, which leaves the result nil) and the       *)
(* status was below 400.  A body that is empty or no JSON gives a nil      *)
(* result and the parse error whatever the status is: the status is tested *)
(* only after the body parsed.                                             *)
C17_NilErrorIffParsed ==
    ret.op \in {"Get", "PostJSON", "Delete"} =>
       /\ ret.err.nil <=> /\ reqs[1].answer.ok
                          /\ reqs[1].answer.raw.w \in {"object", "null"}
                          /\ reqs[1].answer.status < 400
       /\ ret.err.nil =>
            ret.value = IF reqs[1].answer.raw.w = "object" THEN reqs[1].answer.raw.v
                        ELSE JNil
       /\ (reqs[1].answer.ok /\ reqs[1].answer.raw.w \in {"empty", "garbage"}) =>
            /\ ret.value = JNil
            /\ ~ret.err.nil
            /\ ret.err.msg[1] = "failed to parse JSON:"
       /\ (reqs[1].answer.ok /\ reqs[1].answer.raw.w \in {"object", "null"}
             /\ reqs[1].answer.status >= 400) =>
            ret.err = Err(<<"API request failed with status",
                            ToString(reqs[1].answer.status)>>)

\* a DELETE answered 204 with no body returned an error and no result
C17_Witness ==
    /\ ret.op = "Delete"
    /\ reqs[1].answer.ok
    /\ reqs[1].answer.status = 204
    /\ reqs[1].answer.raw = RawEmpty
    /\ ~ret.err.nil
    /\ ret.value = JNil

(* C16 as stated: when the mint inside EnsureAuth fails, the operation of  *)
(* the resource client that triggered it sends no request, returns the     *)
(* error as its error result, leaves the token slot empty and the rest of  *)
(* the client's state unchanged, after one attempt to mint.                *)
C16_FailedMintReturnsError ==
    [][(/\ now' = now
        /\ ret'.op \in ResourceOps
        /\ httpConfig.Token.len = 0
        /\ ~GetToken(jwtConfig, now, mintCount + 1).err.nil)
       => /\ reqs' = <<>>
          /\ ret'.err = GetToken(jwtConfig, now, mintCount + 1).err
          /\ httpConfig' = httpConfig
          /\ jwtConfig' = jwtConfig
          /\ mintCount' = mintCount /\ lastMint' = lastMint
          /\ parseCount' = parseCount + 1]_vars

(* C16 as amended: when the mint inside EnsureAuth fails (a key that does  *)
(* not parse, a key of the wrong family, or a signing failure), the        *)
(* operation that triggered it sends no request, leaves the token slot     *)
(* empty and the Generator's and the Transport's configuration and the     *)
(* mints made so far unchanged, and has run the key parser once.  The base *)
(* methods and DeviceSort return the mint's error; GetDeviceType and       *)
(* RegisterAndGetType return a nil error and DeviceType{Success: false}    *)
(* whose Error is the mint error's text.  With such a key the slot is      *)
(* empty before every operation, so each operation tries the mint again.   *)
C16_FailedMintFrame ==
    /\ [](~GetToken(jwtConfig, now, mintCount + 1).err.nil => httpConfig.Token = EmptySlot)
    /\ [][(/\ now' = now
           /\ ret'.op \in ResourceOps
           /\ httpConfig.Token.len = 0
           /\ ~GetToken(jwtConfig, now, mintCount + 1).err.nil)
          => /\ reqs' = <<>>
             /\ ret'.op \in BaseOps \cup {"DeviceSort"} =>
                  ret'.err = GetToken(jwtConfig, now, mintCount + 1).err
             /\ ret'.op \in TypeOps =>
                  /\ ret'.err.nil
                  /\ ~ret'.value.Success
                  /\ ret'.value.Error =
                       ErrorText(GetToken(jwtConfig, now, mintCount + 1).err)
             /\ httpConfig' = httpConfig
             /\ jwtConfig' = jwtConfig
             /\ mintCount' = mintCount /\ lastMint' = lastMint
             /\ parseCount' = parseCount + 1]_vars

\* a second operation in a row failed to sign with a P-384 key: no request,
\* the slot still empty, the key parser run once by each
C16_Witness ==
    /\ ret.op = "Register"
    /\ jwtConfig.PrivateKey = KeyPKCS8EC384
    /\ ~ret.err.nil
    /\ ret.err.msg[2] = "failed to sign token:"
    /\ reqs = <<>>
    /\ httpConfig.Token = EmptySlot
    /\ parseCount = 2
====
